---- MODULE Spec2Model ----
(***************************************************************************)
(* A model of src/app.py: the Arabic-PDF translation pipeline.             *)
(*                                                                         *)
(*   parse_page_ranges   the range parser (a pure function)                *)
(*   translate_pdf       the orchestrator, one request context per upload  *)
(*   index               the POST handler that calls translate_pdf         *)
(*   download_file       the GET /download/<file_id> handler               *)
(*   generated_files     the process-wide registry of packaged documents   *)
(*                                                                         *)
(* Python strings are sequences of one-character strings, so that          *)
(* splitting, stripping, int() and f-string rendering are computed the way *)
(* the code computes them; a literal of the source (".docx", "Page ") is   *)
(* kept as one element.  The GET branch of index renders a form and        *)
(* touches no state; it has no action.                                     *)
(***************************************************************************)
EXTENDS Integers, Sequences, FiniteSets, TLC

VARIABLES
    \* ---- process-wide state ----
    generated_files,      \* the registry: download id -> [bytes, filename]
    uuids,                \* the values uuid.uuid4() has returned so far
    response,             \* what the last call of download_file returned
    uploads,              \* POST requests dispatched so far
    \* ---- one request context per r (the locals of index / translate_pdf) ----
    pc,                   \* where the context stands
    form,                 \* the POST's fields: [pdf_file, pages, file_prefix]
    flash,                \* the message flashed by index (None: none)
    ranges_to_translate,  \* the intervals of the request
    idx,                  \* position of the for loop in ranges_to_translate
    results,              \* the outcome list
    combined_text,        \* the text handed to the translator
    \* ---- history, written and never read by the program ----
    trace,                \* per interval, the states it went through
    stored,               \* per context, the ids its request stored
    given,                \* per id, the ok outcomes that carry it
    parsed,               \* per context, the arguments its request called
                          \* parse_page_ranges with
    puts,                 \* the stores of line 117 that have completed, in
                          \* order: [id, info]
    \* ---- direct calls of parse_page_ranges ----
    parse_arg,   \* the argument of a direct call of parse_page_ranges
    parse_ret,   \* <<what that call returned>>, <<>> before it returns
    parse_prev   \* the earlier calls of the same run: [op, arg, ret]

(***************************************************************************)
(* Bounds of the model.                                                    *)
(***************************************************************************)
\* Longest range expression handed to a direct call of parse_page_ranges.
MaxLen == 5

\* POST requests dispatched in one run of the process.
MaxUploads == 2

\* The ids a download may ask for: the first MaxFileId that uuid4 draws, and
\* one that uuid4 never draws.
MaxFileId == 1

(***************************************************************************)
(* Python values.                                                          *)
(***************************************************************************)
\* Python's None.  No string of the model equals it: "None" is no character.
None == <<"None">>

\* The characters a range expression is drawn from: three digits, the two
\* separators, a blank and one character that belongs to no integer.
Alphabet == {"0", "1", "2", "-", ",", " ", "x"}

DigitChars == <<"0", "1", "2", "3", "4", "5", "6", "7", "8", "9">>

IsDigit(c) == \E i \in 1..Len(DigitChars) : DigitChars[i] = c

DigitVal(c) == (CHOOSE i \in 1..Len(DigitChars) : DigitChars[i] = c) - 1

\* str.isspace for the characters of the model.
IsSpace(c) == c = " "

\* c in s
Contains(s, c) == \E i \in 1..Len(s) : s[i] = c

RECURSIVE LStrip(_)
LStrip(s) ==
    IF s # <<>> /\ IsSpace(Head(s)) THEN LStrip(Tail(s)) ELSE s

RECURSIVE RStrip(_)
RStrip(s) ==
    IF s # <<>> /\ IsSpace(s[Len(s)]) THEN RStrip(SubSeq(s, 1, Len(s) - 1)) ELSE s

\* str.strip()
Strip(s) == RStrip(LStrip(s))

\* str.split(sep) for a one-character separator: always at least one piece,
\* empty pieces kept.
RECURSIVE Split(_, _)
Split(s, sep) ==
    IF ~Contains(s, sep)
    THEN <<s>>
    ELSE LET i == CHOOSE k \in 1..Len(s) :
                      s[k] = sep /\ \A j \in 1..(k - 1) : s[j] # sep
         IN  <<SubSeq(s, 1, i - 1)>> \o Split(SubSeq(s, i + 1, Len(s)), sep)

\* The strings int() accepts among the strings of the model: after its own
\* stripping of blanks, one or more decimal digits.  (A sign or an underscore
\* is no character of Alphabet, and a piece split at "-" holds no "-".)
IsIntLiteral(s) ==
    LET t == Strip(s)
    IN  t # <<>> /\ \A i \in 1..Len(t) : IsDigit(t[i])

RECURSIVE DecimalValue(_)
DecimalValue(t) ==
    IF t = <<>> THEN 0
    ELSE 10 * DecimalValue(SubSeq(t, 1, Len(t) - 1)) + DigitVal(t[Len(t)])

\* int(s) where it does not raise ValueError.
int(s) == DecimalValue(Strip(s))

\* str(n) / f"{n}" of an integer n >= 0.
RECURSIVE str(_)
str(n) ==
    IF n < 10 THEN <<DigitChars[n + 1]>>
    ELSE str(n \div 10) \o <<DigitChars[(n % 10) + 1]>>

(***************************************************************************)
(* parse_page_ranges (src/app.py 22-39).                                   *)
(***************************************************************************)
\* A call that raised: nothing is returned.
Raised == [raised |-> TRUE, value |-> <<>>]

Returned(v) == [raised |-> FALSE, value |-> v]

\* A slip: an inverted range is kept as written.
ParsePartNoSwap(part) ==
    IF Contains(part, "-")
    THEN LET pieces == Split(part, "-")
         IN  IF Len(pieces) # 2 THEN Raised
             ELSE IF ~IsIntLiteral(Strip(pieces[1])) THEN Raised
             ELSE IF ~IsIntLiteral(Strip(pieces[2])) THEN Raised
             ELSE Returned(<<int(Strip(pieces[1])), int(Strip(pieces[2]))>>)
    ELSE IF ~IsIntLiteral(Strip(part)) THEN Raised
         ELSE Returned(<<int(Strip(part)), int(Strip(part))>>)

\* One turn of the loop over parts: the interval the part appends, or Raised
\* when the unpacking of part.split('-') or an int() raises ValueError.
ParsePart(part) ==
    IF Contains(part, "-")
    THEN LET pieces == Split(part, "-")
         IN  IF Len(pieces) # 2 THEN Raised
             ELSE IF ~IsIntLiteral(Strip(pieces[1])) THEN Raised
             ELSE IF ~IsIntLiteral(Strip(pieces[2])) THEN Raised
             ELSE LET start == int(Strip(pieces[1]))
                      end   == int(Strip(pieces[2]))
                  IN  IF start > end
                      THEN Returned(<<end, start>>)
                      ELSE Returned(<<start, end>>)
    ELSE IF ~IsIntLiteral(Strip(part)) THEN Raised
         ELSE LET page == int(Strip(part))
              IN  Returned(<<page, page>>)

\* A slip: a part that does not parse is skipped (try / except: continue).
RECURSIVE ParsePartsSkipping(_, _)
ParsePartsSkipping(parts, ranges) ==
    IF parts = <<>> THEN Returned(ranges)
    ELSE IF IsIntLiteral(Strip(Head(parts)))
    THEN ParsePartsSkipping(Tail(parts),
             Append(ranges, <<int(Strip(Head(parts))), int(Strip(Head(parts)))>>))
    ELSE ParsePartsSkipping(Tail(parts), ranges)

\* A slip: an interval the list already holds is not appended again.
RECURSIVE ParsePartsDedup(_, _)
ParsePartsDedup(parts, ranges) ==
    IF parts = <<>> THEN Returned(ranges)
    ELSE LET one == ParsePart(Head(parts))
         IN  IF one.raised THEN Raised
             ELSE IF \E i \in 1..Len(ranges) : ranges[i] = one.value
             THEN ParsePartsDedup(Tail(parts), ranges)
             ELSE ParsePartsDedup(Tail(parts), Append(ranges, one.value))

\* The loop over parts, from the first: ranges is the list built so far.
RECURSIVE ParseParts(_, _)
ParseParts(parts, ranges) ==
    IF parts = <<>> THEN Returned(ranges)
    ELSE LET one == ParsePart(Head(parts))
         IN  IF one.raised THEN Raised
             ELSE ParseParts(Tail(parts), Append(ranges, one.value))

parse_page_ranges(pages_arg) == ParseParts(Split(pages_arg, ","), <<>>)

(***************************************************************************)
(* The inputs of a request.                                                *)
(***************************************************************************)
\* The request contexts: the server runs each request on a thread of its own,
\* so two requests may be under way at once.
Reqs == {"r1", "r2"}

\* A page, by what page.extract_text() does on it.
Page(text) == [raises |-> FALSE, text |-> text]

BadPage == [raises |-> TRUE, text |-> <<>>]

\* An uploaded file, by what PdfReader does on it; NoFile is the POST without
\* its pdf_file field.
Pdf(pages) == [present |-> TRUE, opens |-> TRUE, pages |-> pages]

Corrupt == [present |-> TRUE, opens |-> FALSE, pages |-> <<>>]

NoFile == [present |-> FALSE, opens |-> FALSE, pages |-> <<>>]

\* Three pages, the second padded with blanks, the third blank.
DocThree == Pdf(<<Page(<<"a">>), Page(<<" ", "b", " ">>), Page(<<" ">>)>>)

\* Two pages, the second one makes extract_text raise.
DocBad == Pdf(<<Page(<<"a">>), BadPage>>)

\* A document without pages.
DocEmpty == Pdf(<<>>)

\* A POST: the uploaded file, the pages field (absent, empty, or a range
\* expression) and the file_prefix field (absent or given).
Form(a, b, c) == [pdf_file |-> a, pages |-> b, file_prefix |-> c]

\* The POSTs of the model.
Forms ==
    { Form(DocThree, <<>>, <<"p">>),
      Form(DocThree, <<"2", "-", "2", ",", "2">>, None),
      Form(DocThree, <<"2", ",", "3", ",", "1">>, <<"p">>),
      Form(DocThree, <<"4", "-", "2">>, None),
      Form(DocThree, <<"1", ",", "x">>, None),
      Form(DocThree, <<"0", ",", "4">>, None),
      Form(DocBad, <<"1", ",", "2">>, None),
      Form(DocEmpty, None, None),
      Form(Corrupt, None, None),
      Form(NoFile, None, None) }

\* The ids a download may ask for; uuid4 never draws the one numbered 0.
FileIds == {<<"uuid", n>> : n \in 0..MaxFileId}

\* What the translator may answer.  One answer holds a control character,
\* which no XML document can hold.
Translations == {<<"T">>, <<"<VT>">>}

\* The exception of a translator call that fails.
TranslatorError == <<"APIError">>

\* Python truthiness of an optional string.
Truthy(s) == s # None /\ s # <<>>

(***************************************************************************)
(* translate_pdf's helpers (src/app.py 76-135).                            *)
(***************************************************************************)
\* The inner loop of lines 78-86 from page_number on: the stripped texts of
\* the pages of the document in page_number..end_page, or Raised when
\* extract_text raises.
RECURSIVE ExtractFrom(_, _, _, _)
ExtractFrom(pages, page_number, end_page, parts) ==
    IF page_number > end_page THEN Returned(parts)
    ELSE LET page_index == page_number - 1
         IN  IF page_index < 0 \/ page_index >= Len(pages)
             THEN ExtractFrom(pages, page_number + 1, end_page, parts)
             ELSE LET page == pages[page_index + 1]
                  IN  IF page.raises THEN Raised
                      ELSE IF page.text # <<>> /\ Strip(page.text) # <<>>
                      THEN ExtractFrom(pages, page_number + 1, end_page,
                                       Append(parts, Strip(page.text)))
                      ELSE ExtractFrom(pages, page_number + 1, end_page, parts)

\* A slip: no test of page_index; reader.pages[page_index] raises IndexError
\* past the end of the document.
RECURSIVE ExtractFromUnchecked(_, _, _, _)
ExtractFromUnchecked(pages, page_number, end_page, parts) ==
    IF page_number > end_page THEN Returned(parts)
    ELSE LET page_index == page_number - 1
         IN  IF page_index < 0 \/ page_index >= Len(pages)
             THEN Raised
             ELSE LET page == pages[page_index + 1]
                  IN  IF page.raises THEN Raised
                      ELSE IF page.text # <<>> /\ Strip(page.text) # <<>>
                      THEN ExtractFromUnchecked(pages, page_number + 1, end_page,
                                                Append(parts, Strip(page.text)))
                      ELSE ExtractFromUnchecked(pages, page_number + 1, end_page,
                                                parts)

extracted_text_parts_unchecked(pages, start_page, end_page) ==
    ExtractFromUnchecked(pages, start_page, end_page, <<>>)

\* Lines 77-86.
extracted_text_parts(pages, start_page, end_page) ==
    ExtractFrom(pages, start_page, end_page, <<>>)

\* sep.join(parts)
RECURSIVE Join(_, _)
Join(parts, sep) ==
    IF parts = <<>> THEN <<>>
    ELSE IF Len(parts) = 1 THEN parts[1]
    ELSE parts[1] \o sep \o Join(Tail(parts), sep)

\* Line 105.
heading(start_page, end_page) ==
    IF start_page = end_page
    THEN <<"Page ">> \o str(start_page) \o <<" Translation">>
    ELSE <<"Pages ">> \o str(start_page) \o <<"-">> \o str(end_page)
             \o <<" Translation">>

\* Line 115.
range_label(start_page, end_page) ==
    IF start_page = end_page
    THEN <<"page_">> \o str(start_page)
    ELSE <<"pages_">> \o str(start_page) \o <<"-">> \o str(end_page)

\* Line 119.
filename(file_prefix, start_page, end_page) ==
    file_prefix \o <<"_">> \o range_label(start_page, end_page) \o <<".docx">>

\* A slip: the range is rendered by its last page alone.
range_text_last_page(start_page, end_page) == str(end_page)

\* The "range" of an outcome, lines 123 and 132.
range_text(start_page, end_page) ==
    IF start_page = end_page
    THEN str(start_page)
    ELSE str(start_page) \o <<"-">> \o str(end_page)

\* Line 129.
error_msg(start_page, end_page, e) ==
    <<"Error translating pages ">> \o str(start_page) \o <<"-">>
        \o str(end_page) \o <<": ">> \o e

\* Whether lxml takes the string: no control character.
XmlCompatible(s) == \A i \in 1..Len(s) : s[i] # "<VT>"

\* Lines 104-112: the document, by the heading and the paragraph it holds.
Docx(h, paragraph) == <<"docx", h, paragraph>>

\* uuid.uuid4(): 122 random bits.  Its values are taken to be pairwise
\* distinct, and are named in the order they are drawn: the program never
\* looks into an id.
uuid4 == <<"uuid", Cardinality(uuids) + 1>>

\* request.form.get("file_prefix") or "translation", line 151.
file_prefix(r) ==
    IF Truthy(form[r].file_prefix) THEN form[r].file_prefix
    ELSE <<"translation">>

\* The interval the for loop of context r stands at.
start_page(r) == ranges_to_translate[r][idx[r]][1]

end_page(r) == ranges_to_translate[r][idx[r]][2]

\* A slip: the id is made from the range label, not drawn.
NewDownloadIdFromLabel(r) == range_label(start_page(r), end_page(r))

\* Line 116.
NewDownloadId(r) == uuid4

\* A slip: the ok outcome is built without its id.
OkOutcomeNoId(r, t, id) ==
    [range |-> range_text(start_page(r), end_page(r)),
     translation |-> t,
     download_id |-> None]

\* The ok outcome of lines 122-126 and the error outcome of lines 131-135.
OkOutcome(r, t, id) ==
    [range |-> range_text(start_page(r), end_page(r)),
     translation |-> t,
     download_id |-> id]

ErrOutcome(r, e) ==
    [range |-> range_text(start_page(r), end_page(r)),
     translation |-> error_msg(start_page(r), end_page(r), e),
     download_id |-> None]

\* A slip: the entry is named with the default prefix, whatever the form gave.
file_info_default_prefix(r, bytes) ==
    [bytes |-> bytes,
     filename |-> filename(<<"translation">>, start_page(r), end_page(r))]

\* The entry stored at lines 117-120.
file_info(r, bytes) ==
    [bytes |-> bytes,
     filename |-> filename(file_prefix(r), start_page(r), end_page(r))]

\* Line 175.
NotFound == [status |-> 404, body |-> <<"File not found">>, filename |-> None]

\* No download has been asked for yet.
NoResponse == [status |-> 0, body |-> None, filename |-> None]

\* A slip: the dict is rebound to a dict of the one new entry.
StoreAlone(d, k, v) == [x \in {k} |-> v]

\* d[k] = v of a Python dict: the key is added, or its value replaced.
Store(d, k, v) ==
    [x \in DOMAIN d \cup {k} |-> IF x = k THEN v ELSE d[x]]

\* One more ok outcome carries the id k.
Count(g, k) ==
    [x \in DOMAIN g \cup {k} |-> IF x \in DOMAIN g /\ x = k THEN g[x] + 1
                                 ELSE IF x = k THEN 1 ELSE g[x]]

(***************************************************************************)
(* The state.                                                              *)
(***************************************************************************)
procVars == <<generated_files, uuids, response, uploads>>

localVars == <<pc, form, flash, ranges_to_translate, idx, results,
               combined_text>>

histVars == <<trace, stored, given, parsed, puts>>

parseVars == <<parse_arg, parse_ret, parse_prev>>

vars == <<procVars, localVars, histVars, parseVars>>

NoForm == [pdf_file |-> NoFile, pages |-> None, file_prefix |-> None]

Init ==
    /\ generated_files = <<>>
    /\ uuids = {}
    /\ response = NoResponse
    /\ uploads = 0
    /\ pc = [r \in Reqs |-> "idle"]
    /\ form = [r \in Reqs |-> NoForm]
    /\ flash = [r \in Reqs |-> None]
    /\ ranges_to_translate = [r \in Reqs |-> <<>>]
    /\ idx = [r \in Reqs |-> 0]
    /\ results = [r \in Reqs |-> <<>>]
    /\ combined_text = [r \in Reqs |-> None]
    /\ trace = [r \in Reqs |-> <<>>]
    /\ stored = [r \in Reqs |-> {}]
    /\ given = <<>>
    /\ parsed = [r \in Reqs |-> <<>>]
    /\ puts = <<>>
    /\ parse_arg = <<>>
    /\ parse_ret = <<>>
    /\ parse_prev = <<>>

\* The interval of context r moves through the states ss, in this order.
Steps(r, ss) == [trace EXCEPT ![r][idx[r]] = @ \o ss]

\* The turn of the for loop ends: the next one begins or, after the last
\* interval, translate_pdf returns the list (line 137) and index renders it
\* (line 163).
EndTurn(r) ==
    /\ idx' = [idx EXCEPT ![r] = @ + 1]
    /\ combined_text' = [combined_text EXCEPT ![r] = None]
    /\ pc' = [pc EXCEPT ![r] = IF idx[r] + 1 > Len(ranges_to_translate[r])
                                THEN "rendered" ELSE "loop"]

(***************************************************************************)
(* index, POST (src/app.py 142-163), to the head of translate_pdf's loop   *)
(* (66-74).                                                                *)
(***************************************************************************)
\* A slip: the test is "pages_arg is not None", the empty field is parsed.
RangesParsesEmpty(pdf_file, pages_arg) ==
    IF pages_arg # None
    THEN parse_page_ranges(pages_arg)
    ELSE Returned(<<<<1, Len(pdf_file.pages)>>>>)

\* Lines 69-72: the intervals of the request, or Raised.
Ranges(pdf_file, pages_arg) ==
    IF Truthy(pages_arg)
    THEN parse_page_ranges(pages_arg)
    ELSE Returned(<<<<1, Len(pdf_file.pages)>>>>)

\* The calls of parse_page_ranges a request makes: one, at line 70, when
\* PdfReader has opened the file (line 66) and pages_arg is truthy.
ParserCalls(pdf_file, pages_arg) ==
    IF pdf_file.present /\ pdf_file.opens /\ Truthy(pages_arg)
    THEN <<pages_arg>>
    ELSE <<>>

\* A context with no request under way: its last response has been sent.
Free(r) == pc[r] \in {"idle", "rendered", "redirected"}

\* A context takes a request: its locals as index and the head of
\* translate_pdf leave them.
Enter(r, f, m, p, ranges) ==
    /\ form' = [form EXCEPT ![r] = f]
    /\ flash' = [flash EXCEPT ![r] = m]
    /\ pc' = [pc EXCEPT ![r] = p]
    /\ ranges_to_translate' = [ranges_to_translate EXCEPT ![r] = ranges]
    /\ idx' = [idx EXCEPT ![r] = 1]
    /\ results' = [results EXCEPT ![r] = <<>>]
    /\ combined_text' = [combined_text EXCEPT ![r] = None]
    /\ trace' = [trace EXCEPT ![r] = [i \in 1..Len(ranges) |-> <<"NEW">>]]
    /\ stored' = [stored EXCEPT ![r] = {}]

Upload(r, pdf_file, pages, prefix) ==
    LET f == [pdf_file |-> pdf_file, pages |-> pages, file_prefix |-> prefix]
        rs == Ranges(pdf_file, pages)
    IN  /\ Free(r)
        /\ uploads < MaxUploads
        /\ uploads' = uploads + 1
        /\ parsed' = [parsed EXCEPT ![r] = ParserCalls(pdf_file, pages)]
        /\ IF ~pdf_file.present
           THEN \* lines 144-146
                Enter(r, f, <<"No PDF file uploaded.">>, "redirected", <<>>)
           ELSE IF ~pdf_file.opens \/ rs.raised
           THEN \* PdfReader or parse_page_ranges raises: lines 159-161
                Enter(r, f, <<"Error during translation: ">>, "redirected", <<>>)
           ELSE Enter(r, f, None, "loop", rs.value)
        /\ UNCHANGED <<generated_files, uuids, response, given, puts, parseVars>>

(***************************************************************************)
(* translate_pdf's loop (src/app.py 76-137).  A turn is two steps: the     *)
(* extraction up to the translator call, and what follows the translator's *)
(* answer.  The call is the one place a request blocks; the steps of other *)
(* contexts come between the steps of this one.                            *)
(***************************************************************************)
\* A slip: an interval without text is not skipped, the translator is called
\* on the empty string.
ExtractKeepsEmpty(r) ==
    /\ pc[r] = "loop"
    /\ idx[r] <= Len(ranges_to_translate[r])
    /\ LET parts == extracted_text_parts(form[r].pdf_file.pages,
                                         start_page(r), end_page(r))
       IN  IF parts.raised
           THEN /\ pc' = [pc EXCEPT ![r] = "redirected"]
                /\ flash' = [flash EXCEPT ![r] = <<"Error during translation: ">>]
                /\ trace' = Steps(r, <<"EXTRACTING">>)
                /\ UNCHANGED <<idx, combined_text>>
           ELSE /\ pc' = [pc EXCEPT ![r] = "translating"]
                /\ combined_text' =
                       [combined_text EXCEPT ![r] = Join(parts.value, <<"\n\n">>)]
                /\ trace' = Steps(r, <<"EXTRACTING", "TRANSLATING">>)
                /\ UNCHANGED <<flash, idx>>
    /\ UNCHANGED <<procVars, form, ranges_to_translate, results, stored, given,
                   parsed, puts, parseVars>>

\* Lines 76-92: the text of the interval.  A page that raises ends the
\* request (index's lines 159-161); an interval without text is skipped.
Extract(r) ==
    /\ pc[r] = "loop"
    /\ idx[r] <= Len(ranges_to_translate[r])
    /\ LET parts == extracted_text_parts(form[r].pdf_file.pages,
                                         start_page(r), end_page(r))
       IN  IF parts.raised
           THEN /\ pc' = [pc EXCEPT ![r] = "redirected"]
                /\ flash' = [flash EXCEPT ![r] = <<"Error during translation: ">>]
                /\ trace' = Steps(r, <<"EXTRACTING">>)
                /\ UNCHANGED <<idx, combined_text>>
           ELSE IF parts.value = <<>>
           THEN /\ EndTurn(r)
                /\ trace' = Steps(r, <<"EXTRACTING", "EMPTY", "DROPPED">>)
                /\ UNCHANGED flash
           ELSE /\ pc' = [pc EXCEPT ![r] = "translating"]
                /\ combined_text' =
                       [combined_text EXCEPT ![r] = Join(parts.value, <<"\n\n">>)]
                /\ trace' = Steps(r, <<"EXTRACTING", "TRANSLATING">>)
                /\ UNCHANGED <<flash, idx>>
    /\ UNCHANGED <<procVars, form, ranges_to_translate, results, stored, given,
                   parsed, puts, parseVars>>

\* A slip: the exception is swallowed, no outcome is recorded.
ExceptSilent(r, before, e) ==
    /\ EndTurn(r)
    /\ trace' = Steps(r, before \o <<"ERR", "EMITTED_ERR">>)
    /\ UNCHANGED <<procVars, form, flash, ranges_to_translate, results, stored,
                   given, parsed, puts, parseVars>>

\* A slip: the outcome is put at the head of the list.
ExceptPrepends(r, before, e) ==
    /\ results' = [results EXCEPT ![r] = <<ErrOutcome(r, e)>> \o @]
    /\ EndTurn(r)
    /\ trace' = Steps(r, before \o <<"ERR", "EMITTED_ERR">>)
    /\ UNCHANGED <<procVars, form, flash, ranges_to_translate, stored, given,
                   parsed, puts, parseVars>>

\* A slip: the except clause leaves the loop (break).
ExceptBreaks(r, before, e) ==
    /\ results' = [results EXCEPT ![r] = Append(@, ErrOutcome(r, e))]
    /\ idx' = [idx EXCEPT ![r] = Len(ranges_to_translate[r]) + 1]
    /\ combined_text' = [combined_text EXCEPT ![r] = None]
    /\ pc' = [pc EXCEPT ![r] = "rendered"]
    /\ trace' = Steps(r, before \o <<"ERR", "EMITTED_ERR">>)
    /\ UNCHANGED <<procVars, form, flash, ranges_to_translate, stored, given,
                   parsed, puts, parseVars>>

\* A slip: the except clause stores a document of the error message.
ExceptStoresMessage(r, before, e) ==
    /\ results' = [results EXCEPT ![r] = Append(@, ErrOutcome(r, e))]
    /\ EndTurn(r)
    /\ trace' = Steps(r, before \o <<"ERR", "EMITTED_ERR">>)
    /\ uuids' = uuids \cup {uuid4}
    /\ generated_files' =
           Store(generated_files, uuid4,
                 file_info(r, Docx(heading(start_page(r), end_page(r)),
                                   error_msg(start_page(r), end_page(r), e))))
    /\ UNCHANGED <<response, uploads, form, flash, ranges_to_translate, stored,
                   given, parsed, puts, parseVars>>

\* The except clause, lines 128-135: an error outcome, and the next turn.
\* before: the states the interval went through ahead of the exception.
Except(r, before, e) ==
    /\ results' = [results EXCEPT ![r] = Append(@, ErrOutcome(r, e))]
    /\ EndTurn(r)
    /\ trace' = Steps(r, before \o <<"ERR", "EMITTED_ERR">>)
    /\ UNCHANGED <<procVars, form, flash, ranges_to_translate, stored, given,
                   parsed, puts, parseVars>>

\* Lines 95-99: the translator call raises.
TranslateRaises(r) ==
    /\ pc[r] = "translating"
    /\ Except(r, <<>>, TranslatorError)

\* A slip: the request works on a dict of its own entries and rebinds
\* generated_files to it at each store.
TranslateReturnsOwnCopy(r, t) ==
    /\ pc[r] = "translating"
    /\ IF ~XmlCompatible(t)
       THEN Except(r, <<"OK">>, <<"ValueError">>)
       ELSE LET docx_bytes == Docx(heading(start_page(r), end_page(r)), t)
                download_id == NewDownloadId(r)
            IN  /\ uuids' = uuids \cup {uuid4}
                /\ generated_files' =
                       Store([x \in stored[r] |-> generated_files[x]],
                             download_id, file_info(r, docx_bytes))
                /\ results' = [results EXCEPT ![r] =
                                   Append(@, OkOutcome(r, t, download_id))]
                /\ EndTurn(r)
                /\ trace' = Steps(r, <<"OK", "PACKAGED", "REGISTERED",
                                       "EMITTED_OK">>)
                /\ stored' = [stored EXCEPT ![r] = @ \cup {download_id}]
                /\ given' = Count(given, download_id)
                /\ puts' = Append(puts, [id |-> download_id,
                                         info |-> file_info(r, docx_bytes)])
                /\ UNCHANGED <<response, uploads, form, flash,
                               ranges_to_translate, parsed, parseVars>>

\* Lines 95-126: the translator answers t, and the try block runs on without
\* another blocking call: the document is built (104-112; lxml raises
\* ValueError on a string that is not XML compatible), a fresh id is drawn
\* and the entry stored under it (115-120), the ok outcome appended (122-126).
TranslateReturns(r, t) ==
    /\ pc[r] = "translating"
    /\ IF ~XmlCompatible(t)
       THEN Except(r, <<"OK">>, <<"ValueError">>)
       ELSE LET docx_bytes == Docx(heading(start_page(r), end_page(r)), t)
                download_id == NewDownloadId(r)
            IN  /\ uuids' = uuids \cup {uuid4}
                /\ generated_files' =
                       Store(generated_files, download_id, file_info(r, docx_bytes))
                /\ results' = [results EXCEPT ![r] =
                                   Append(@, OkOutcome(r, t, download_id))]
                /\ EndTurn(r)
                /\ trace' = Steps(r, <<"OK", "PACKAGED", "REGISTERED",
                                       "EMITTED_OK">>)
                /\ stored' = [stored EXCEPT ![r] = @ \cup {download_id}]
                /\ given' = Count(given, download_id)
                /\ puts' = Append(puts, [id |-> download_id,
                                         info |-> file_info(r, docx_bytes)])
                /\ UNCHANGED <<response, uploads, form, flash,
                               ranges_to_translate, parsed, parseVars>>

(***************************************************************************)
(* download_file (src/app.py 168-181).                                     *)
(***************************************************************************)
\* A slip: generated_files[file_id], which raises KeyError on a miss; the
\* server answers 500.
download_file_subscript(file_id) ==
    IF file_id \notin DOMAIN generated_files
    THEN [status |-> 500, body |-> <<"Internal Server Error">>, filename |-> None]
    ELSE [status |-> 200,
          body |-> generated_files[file_id].bytes,
          filename |-> generated_files[file_id].filename]

\* generated_files.get(file_id), and the response built from it.  A stored
\* entry is a dict of two keys, never falsy.
download_file(file_id) ==
    IF file_id \notin DOMAIN generated_files
    THEN NotFound
    ELSE [status |-> 200,
          body |-> generated_files[file_id].bytes,
          filename |-> generated_files[file_id].filename]

Download(file_id) ==
    /\ response' = download_file(file_id)
    /\ UNCHANGED <<generated_files, uuids, uploads, localVars, histVars,
                   parseVars>>

Next ==
    \/ \E r \in Reqs, f \in Forms : Upload(r, f.pdf_file, f.pages, f.file_prefix)
    \/ \E r \in Reqs : Extract(r)
    \/ \E r \in Reqs, t \in Translations : TranslateReturns(r, t)
    \/ \E r \in Reqs : TranslateRaises(r)
    \/ \E file_id \in FileIds : Download(file_id)

Spec == Init /\ [][Next]_vars

(***************************************************************************)
(* Direct calls of parse_page_ranges: a run calls it on one expression     *)
(* and then on an expression derived from the first.                       *)
(***************************************************************************)
\* Every string over Alphabet of length at most n.
RECURSIVE StringsUpTo(_)
StringsUpTo(n) ==
    IF n = 0 THEN {<<>>}
    ELSE LET shorter == StringsUpTo(n - 1)
         IN  shorter \cup {Append(s, c) : s \in shorter, c \in Alphabet}

\* "A-B" with its two sides exchanged, for an expression with exactly one "-"
\* and no ",".
SwapSides(e) ==
    LET pieces == Split(e, "-")
    IN  pieces[2] \o <<"-">> \o pieces[1]

IsOneRange(e) == ~Contains(e, ",") /\ Len(Split(e, "-")) = 2

\* An interval list written back as a range expression: each interval as
\* the "range" of its outcome (line 123), the intervals joined by commas.
Render(ranges) ==
    Join([i \in 1..Len(ranges) |-> range_text(ranges[i][1], ranges[i][2])],
         <<",">>)

InitParse ==
    /\ parse_arg \in StringsUpTo(MaxLen)
    /\ parse_ret = <<>>
    /\ parse_prev = <<>>
    /\ generated_files = <<>>
    /\ uuids = {}
    /\ response = NoResponse
    /\ uploads = 0
    /\ pc = [r \in Reqs |-> "idle"]
    /\ form = [r \in Reqs |-> NoForm]
    /\ flash = [r \in Reqs |-> None]
    /\ ranges_to_translate = [r \in Reqs |-> <<>>]
    /\ idx = [r \in Reqs |-> 0]
    /\ results = [r \in Reqs |-> <<>>]
    /\ combined_text = [r \in Reqs |-> None]
    /\ trace = [r \in Reqs |-> <<>>]
    /\ stored = [r \in Reqs |-> {}]
    /\ given = <<>>
    /\ parsed = [r \in Reqs |-> <<>>]
    /\ puts = <<>>

CallParse ==
    /\ parse_ret = <<>>
    /\ parse_ret' = <<parse_page_ranges(parse_arg)>>
    /\ UNCHANGED <<parse_arg, parse_prev, procVars, localVars, histVars>>

\* The second call of a run, on the first expression with its sides exchanged.
CallSwapped ==
    /\ parse_ret # <<>>
    /\ parse_prev = <<>>
    /\ IsOneRange(parse_arg)
    /\ parse_prev' = <<[op |-> "swap", arg |-> parse_arg, ret |-> parse_ret[1]]>>
    /\ parse_arg' = SwapSides(parse_arg)
    /\ parse_ret' = <<>>
    /\ UNCHANGED <<procVars, localVars, histVars>>

\* The second call of a run, on the rendering of what the first returned.
CallRendered ==
    /\ parse_ret # <<>>
    /\ parse_prev = <<>>
    /\ ~parse_ret[1].raised
    /\ parse_prev' = <<[op |-> "render", arg |-> parse_arg, ret |-> parse_ret[1]]>>
    /\ parse_arg' = Render(parse_ret[1].value)
    /\ parse_ret' = <<>>
    /\ UNCHANGED <<procVars, localVars, histVars>>

NextParse == CallParse \/ CallSwapped \/ CallRendered

SpecParse == InitParse /\ [][NextParse]_vars

(***************************************************************************)
(* Properties.                                                             *)
(***************************************************************************)
Last(s) == s[Len(s)]

\* The state the i-th interval of context r is in.
StateOf(r, i) == Last(trace[r][i])

Emitted(r, i) == StateOf(r, i) \in {"EMITTED_OK", "EMITTED_ERR"}

\* The intervals of context r that have an outcome, in interval order.
RECURSIVE EmittedUpTo(_, _)
EmittedUpTo(r, n) ==
    IF n = 0 THEN <<>>
    ELSE IF Emitted(r, n) THEN Append(EmittedUpTo(r, n - 1), n)
    ELSE EmittedUpTo(r, n - 1)

EmittedIdx(r) == EmittedUpTo(r, Len(ranges_to_translate[r]))

HasId(o) == o.download_id # None

\* C1: in every outcome list, an outcome carries a download id exactly when
\* its interval ended ok (the try block ran to its end), and the id of an ok
\* outcome is one that uuid4 issued; an error outcome carries None.
C1_IdIffOk ==
    \A r \in Reqs :
        /\ Len(results[r]) = Len(EmittedIdx(r))
        /\ \A k \in 1..Len(results[r]) :
               LET o == results[r][k]
                   i == EmittedIdx(r)[k]
               IN  /\ HasId(o) <=> StateOf(r, i) = "EMITTED_OK"
                   /\ HasId(o) => o.download_id \in uuids
                   /\ ~HasId(o) <=> StateOf(r, i) = "EMITTED_ERR"

\* C1 witness: a returned list with an ok outcome and an error outcome.
C1_Witness ==
    \E r \in Reqs :
        /\ pc[r] = "rendered"
        /\ \E k \in 1..Len(results[r]) : HasId(results[r][k])
        /\ \E k \in 1..Len(results[r]) : ~HasId(results[r][k])

\* What the packager makes of the i-th interval of context r and the
\* translation t: the document of lines 104-112 under the name of line 119.
Packaged(r, i, t) ==
    LET iv == ranges_to_translate[r][i]
    IN  [status |-> 200,
         body |-> Docx(heading(iv[1], iv[2]), t),
         filename |-> filename(file_prefix(r), iv[1], iv[2])]

\* C2: for every ok outcome of a request, download_file on its id answers
\* with exactly the document and the filename packaged for that outcome's
\* interval and translation in that request.
C2_RoundTrip ==
    \A r \in Reqs :
        \A k \in 1..Len(results[r]) :
            LET o == results[r][k]
            IN  HasId(o) /\ k <= Len(EmittedIdx(r)) =>
                    download_file(o.download_id)
                        = Packaged(r, EmittedIdx(r)[k], o.translation)

\* C2 witness: the last download answered with the document of an ok outcome
\* of a request that gave a file prefix, while another entry is stored too.
C2_Witness ==
    \E r \in Reqs :
        \E k \in 1..Len(results[r]) :
            /\ HasId(results[r][k])
            /\ Truthy(form[r].file_prefix)
            /\ response = download_file(results[r][k].download_id)
            /\ response.status = 200
            /\ Cardinality(DOMAIN generated_files) >= 2

\* C3: a stored entry stays: every step keeps every id of the registry and
\* what it resolves to.
C3_AppendOnly ==
    [][\A id \in DOMAIN generated_files :
           /\ id \in DOMAIN generated_files'
           /\ generated_files'[id] = generated_files[id]]_vars

\* C3 witness: two requests have stored entries, one after the other, and a
\* download of an entry has been answered.
C3_Witness ==
    /\ uploads = MaxUploads
    /\ \A r \in Reqs : pc[r] = "rendered" /\ stored[r] # {}
    /\ Cardinality(DOMAIN generated_files) >= 2
    /\ response.status = 200

\* C4: no id is carried by two ok outcomes, of one request or of several.
C4_UniqueIds ==
    /\ \A id \in DOMAIN given : given[id] = 1
    /\ \A r1 \in Reqs, r2 \in Reqs :
           \A k1 \in 1..Len(results[r1]), k2 \in 1..Len(results[r2]) :
               /\ HasId(results[r1][k1])
               /\ results[r1][k1].download_id = results[r2][k2].download_id
               => r1 = r2 /\ k1 = k2

\* C4 witness: a request returned two ok outcomes for the same page range,
\* and another request returned an ok outcome too.
C4_Witness ==
    \E r \in Reqs :
        /\ pc[r] = "rendered"
        /\ Len(results[r]) = 2
        /\ results[r][1].range = results[r][2].range
        /\ HasId(results[r][1]) /\ HasId(results[r][2])
        /\ results[r][1].download_id # results[r][2].download_id
        /\ \E q \in Reqs \ {r} : \E k \in 1..Len(results[q]) : HasId(results[q][k])

\* Whether the i-th interval of context r has no extractable text.
NoText(r, i) ==
    LET iv == ranges_to_translate[r][i]
    IN  extracted_text_parts(form[r].pdf_file.pages, iv[1], iv[2]).value = <<>>

\* C5: when a request with a range expression E returns, its list holds at
\* most as many outcomes as parse_page_ranges gives intervals for E, and as
\* many exactly when no interval was without text.
C5_LengthBound ==
    \A r \in Reqs :
        pc[r] = "rendered" /\ Truthy(form[r].pages) =>
            LET n == Len(parse_page_ranges(form[r].pages).value)
            IN  /\ Len(results[r]) <= n
                /\ Len(results[r]) = n <=> \A i \in 1..n : ~NoText(r, i)

\* C5 witness: a returned list shorter than the interval list, and a returned
\* list as long as its interval list that holds an error outcome.
C5_Witness ==
    /\ \E r \in Reqs :
           /\ pc[r] = "rendered" /\ Truthy(form[r].pages)
           /\ 0 < Len(results[r])
           /\ Len(results[r]) < Len(ranges_to_translate[r])
    /\ \E r \in Reqs :
           /\ pc[r] = "rendered" /\ Truthy(form[r].pages)
           /\ Len(results[r]) = Len(ranges_to_translate[r])
           /\ \E k \in 1..Len(results[r]) : ~HasId(results[r][k])

\* The "range" texts of the intervals up to the n-th that have text, in
\* interval order.
RECURSIVE KeptUpTo(_, _)
KeptUpTo(r, n) ==
    IF n = 0 THEN <<>>
    ELSE LET iv == ranges_to_translate[r][n]
         IN  IF NoText(r, n) THEN KeptUpTo(r, n - 1)
             ELSE Append(KeptUpTo(r, n - 1), range_text(iv[1], iv[2]))

\* C6: the ranges of a returned list, in list order, are the ranges of the
\* request's intervals that were not dropped, in interval order; the
\* intervals are those parsed from the form (or the default).
C6_OrderKept ==
    \A r \in Reqs :
        pc[r] = "rendered" =>
            /\ ranges_to_translate[r]
                   = Ranges(form[r].pdf_file, form[r].pages).value
            /\ [k \in 1..Len(results[r]) |-> results[r][k].range]
                   = KeptUpTo(r, Len(ranges_to_translate[r]))

\* C6 witness: three intervals, the middle one dropped, an ok and an error
\* outcome returned for the other two, whose ranges differ.
C6_Witness ==
    \E r \in Reqs :
        /\ pc[r] = "rendered"
        /\ Len(ranges_to_translate[r]) = 3
        /\ StateOf(r, 2) = "DROPPED"
        /\ Len(results[r]) = 2
        /\ results[r][1].range # results[r][2].range
        /\ HasId(results[r][1]) # HasId(results[r][2])

\* Whether a translator call or the packaging failed for the interval.
Failed(r, i) == \E j \in 1..Len(trace[r][i]) : trace[r][i][j] = "ERR"

\* C7: an interval that fails ends in an error outcome and the loop goes on:
\* a request is never ended by a translation failure (only by a page whose
\* extraction raises), and when it returns every interval has ended in the
\* state its own text and its own translator answer give it, whatever
\* happened to the others.
C7_FailureIsLocal ==
    \A r \in Reqs :
        /\ \A i \in 1..Len(ranges_to_translate[r]) :
               Failed(r, i) => StateOf(r, i) = "EMITTED_ERR"
        /\ pc[r] = "redirected" /\ ranges_to_translate[r] # <<>> =>
               extracted_text_parts(form[r].pdf_file.pages,
                                    start_page(r), end_page(r)).raised
        /\ pc[r] = "rendered" =>
               \A i \in 1..Len(ranges_to_translate[r]) :
                   StateOf(r, i) = IF NoText(r, i) THEN "DROPPED"
                                   ELSE IF Failed(r, i) THEN "EMITTED_ERR"
                                   ELSE "EMITTED_OK"

\* C7 witness: a returned request whose first interval failed and whose last
\* interval, after a dropped one, ended ok.
C7_Witness ==
    \E r \in Reqs :
        /\ pc[r] = "rendered"
        /\ Len(ranges_to_translate[r]) = 3
        /\ StateOf(r, 1) = "EMITTED_ERR"
        /\ StateOf(r, 2) = "DROPPED"
        /\ StateOf(r, 3) = "EMITTED_OK"

\* An integer of the range grammar: digits only.
IsInteger(s) == s # <<>> /\ \A i \in 1..Len(s) : IsDigit(s[i])

\* A token of the range grammar: INT or INT '-' INT, blanks allowed around
\* the token and around the '-'.
ValidToken(tok) ==
    \/ IsInteger(Strip(tok))
    \/ \E k \in 1..Len(tok) :
           /\ tok[k] = "-"
           /\ IsInteger(Strip(SubSeq(tok, 1, k - 1)))
           /\ IsInteger(Strip(SubSeq(tok, k + 1, Len(tok))))

ValidExpr(e) ==
    LET toks == Split(e, ",")
    IN  \A i \in 1..Len(toks) : ValidToken(toks[i])

\* C8: a request whose range expression is not empty and holds a token that
\* is no integer and no integer pair fails as a whole: index flashes the
\* error and redirects, there is no outcome list and no interval, the
\* translator was not called and the request stored nothing.
C8_BadExprFailsWhole ==
    \A r \in Reqs :
        /\ pc[r] # "idle"
        /\ form[r].pdf_file.present
        /\ Truthy(form[r].pages)
        /\ ~ValidExpr(form[r].pages)
        => /\ pc[r] = "redirected"
           /\ flash[r] = <<"Error during translation: ">>
           /\ results[r] = <<>>
           /\ ranges_to_translate[r] = <<>>
           /\ trace[r] = <<>>
           /\ combined_text[r] = None
           /\ stored[r] = {}

\* C8 witness: a request failed on an expression whose first token is valid
\* and whose second is not, on a document that opens and has text.
C8_Witness ==
    \E r \in Reqs :
        /\ pc[r] = "redirected"
        /\ form[r].pdf_file.opens
        /\ Truthy(form[r].pages)
        /\ ValidToken(Split(form[r].pages, ",")[1])
        /\ ~ValidExpr(form[r].pages)

\* C9: every interval a request processes satisfies 1 <= start <= end.
C9_IntervalsFromOne ==
    \A r \in Reqs :
        \A i \in 1..Len(ranges_to_translate[r]) :
            LET iv == ranges_to_translate[r][i]
            IN  1 <= iv[1] /\ iv[1] <= iv[2]

\* A positive integer written in digits.
IsPositive(s) == IsInteger(s) /\ DecimalValue(s) > 0

Min(a, b) == IF a <= b THEN a ELSE b

Max(a, b) == IF a <= b THEN b ELSE a

\* C10: parse_page_ranges of "A-B", A and B positive integers, returns the
\* one interval (min(A,B), max(A,B)) and does not raise; the call on "B-A"
\* returns the same.
C10_SwapInvariant ==
    parse_ret # <<>> /\ IsOneRange(parse_arg) =>
        LET sides == Split(parse_arg, "-")
        IN  IsPositive(sides[1]) /\ IsPositive(sides[2]) =>
                /\ parse_ret[1]
                       = Returned(<< <<Min(DecimalValue(sides[1]),
                                           DecimalValue(sides[2])),
                                       Max(DecimalValue(sides[1]),
                                           DecimalValue(sides[2]))>> >>)
                /\ parse_prev # <<>> /\ parse_prev[1].op = "swap" =>
                       parse_ret[1] = parse_prev[1].ret

\* C10 witness: both calls returned, the first on an inverted range with a
\* two-digit side.
C10_Witness ==
    /\ parse_ret # <<>>
    /\ parse_prev # <<>>
    /\ parse_prev[1].op = "swap"
    /\ Len(parse_arg) = 4
    /\ LET sides == Split(parse_arg, "-")
       IN  /\ IsPositive(sides[1]) /\ IsPositive(sides[2])
           /\ DecimalValue(sides[1]) < DecimalValue(sides[2])
           /\ ~parse_ret[1].raised

\* The interval a valid token stands for: (N, N) for N, and for A-B the pair
\* of A and B, the smaller first.
TokenInterval(tok) ==
    IF IsInteger(Strip(tok))
    THEN <<DecimalValue(Strip(tok)), DecimalValue(Strip(tok))>>
    ELSE LET k == CHOOSE j \in 1..Len(tok) : tok[j] = "-"
             a == DecimalValue(Strip(SubSeq(tok, 1, k - 1)))
             b == DecimalValue(Strip(SubSeq(tok, k + 1, Len(tok))))
         IN  <<Min(a, b), Max(a, b)>>

\* C11: for a valid range expression, parse_page_ranges returns one interval
\* per comma-separated token, the i-th interval that of the i-th token:
\* nothing is dropped for being repeated, nothing merged for overlapping.
C11_OnePerToken ==
    parse_ret # <<>> /\ ValidExpr(parse_arg) =>
        LET toks == Split(parse_arg, ",")
        IN  /\ ~parse_ret[1].raised
            /\ parse_ret[1].value
                   = [i \in 1..Len(toks) |-> TokenInterval(toks[i])]

\* C11 witness: a call returned two intervals, the second a page that lies
\* within the first, a range of more than one page.
C11_Witness ==
    /\ parse_ret # <<>>
    /\ ~parse_ret[1].raised
    /\ Len(parse_ret[1].value) = 2
    /\ LET a == parse_ret[1].value[1]
           b == parse_ret[1].value[2]
       IN  /\ a[1] < a[2]
           /\ b[1] = b[2]
           /\ a[1] <= b[1] /\ b[2] <= a[2]

\* C12: a request whose pages field is absent or empty, on a file that
\* opens, has exactly one interval, (1, number of pages of the file), and
\* has not called parse_page_ranges.
C12_DefaultInterval ==
    \A r \in Reqs :
        /\ pc[r] # "idle"
        /\ form[r].pdf_file.present /\ form[r].pdf_file.opens
        /\ ~Truthy(form[r].pages)
        => /\ ranges_to_translate[r] = <<<<1, Len(form[r].pdf_file.pages)>>>>
           /\ Len(trace[r]) = 1
           /\ parsed[r] = <<>>

\* C12 witness: a request with an empty pages field on a document of three
\* pages returned one outcome, for the range 1-3, while a request with a
\* range expression did call the parser.
C12_Witness ==
    /\ \E r \in Reqs :
           /\ pc[r] = "rendered"
           /\ form[r].pages = <<>>
           /\ Len(form[r].pdf_file.pages) = 3
           /\ Len(results[r]) = 1
           /\ results[r][1].range = <<"1", "-", "3">>
    /\ \E r \in Reqs : parsed[r] # <<>>

\* Whether the extraction of the i-th interval of context r ends without
\* text: no page of the interval is in the document, or every one that is
\* has an empty or blank text.
Textless(r, i) ==
    LET iv == ranges_to_translate[r][i]
        parts == extracted_text_parts(form[r].pdf_file.pages, iv[1], iv[2])
    IN  ~parts.raised /\ parts.value = <<>>

\* The intervals of context r whose turn of the loop has ended.
Done(r) == {i \in 1..Len(ranges_to_translate[r]) : i < idx[r]}

\* C13: an interval without extractable text goes NEW, EXTRACTING, EMPTY,
\* DROPPED and no further: the translator is not called for it; the outcome
\* list holds one outcome per finished interval that has text and none for
\* the others; the request has stored at most one entry per finished
\* interval that has text.
C13_EmptyIsDropped ==
    \A r \in Reqs :
        LET kept == {i \in Done(r) : ~Textless(r, i)}
        IN  /\ \A i \in Done(r) \ kept :
                   trace[r][i] = <<"NEW", "EXTRACTING", "EMPTY", "DROPPED">>
            /\ Len(results[r]) = Cardinality(kept)
            /\ Cardinality(stored[r]) <= Cardinality(kept)

\* C13 witness: a returned request dropped an interval whose one page is
\* blank and has outcomes for its other intervals, and a returned request
\* dropped an interval that lies past the end of its document.
C13_Witness ==
    /\ \E r \in Reqs :
           /\ pc[r] = "rendered"
           /\ results[r] # <<>>
           /\ \E i \in Done(r) :
                  /\ StateOf(r, i) = "DROPPED"
                  /\ ranges_to_translate[r][i][2] <= Len(form[r].pdf_file.pages)
                  /\ 1 <= ranges_to_translate[r][i][1]
    /\ \E r \in Reqs :
           /\ pc[r] = "rendered"
           /\ \E i \in Done(r) :
                  /\ StateOf(r, i) = "DROPPED"
                  /\ ranges_to_translate[r][i][1] > Len(form[r].pdf_file.pages)
                  /\ Len(form[r].pdf_file.pages) > 0

\* What a download of id has to answer once the store of id has completed.
ArtifactOf(ps, id) ==
    LET k == CHOOSE j \in 1..Len(ps) : ps[j].id = id
    IN  [status |-> 200, body |-> ps[k].info.bytes,
         filename |-> ps[k].info.filename]

\* C14: whatever the order in which the steps of the requests and the
\* downloads come: after every step, every store that has completed is in
\* the registry with the entry it stored (none is lost, none is replaced by
\* the store of another request), and a download of an id whose store had
\* completed before answers with the entry stored under that id.
C14_RegistrySafe ==
    [][/\ \A k \in 1..Len(puts') :
              /\ puts'[k].id \in DOMAIN generated_files'
              /\ generated_files'[puts'[k].id] = puts'[k].info
       /\ \A id \in FileIds :
              Download(id) /\ (\E k \in 1..Len(puts) : puts[k].id = id)
                  => response' = ArtifactOf(puts, id)]_vars

\* C14 witness: two requests were under way at once and their stores came
\* in turn (the first and the third by one, the second by the other), and a
\* download of the first entry was answered after the third store.
C14_Witness ==
    \E r \in Reqs, q \in Reqs :
        /\ r # q
        /\ Len(puts) >= 3
        /\ {puts[1].id, puts[3].id} \subseteq stored[r]
        /\ puts[2].id \in stored[q]
        /\ response = ArtifactOf(puts, puts[1].id)

\* C15: a download of an id that uuid4 has not issued answers 404 "File not
\* found"; a download of an issued id answers 200, never the miss; either
\* way the registry is after the download what it was before.
C15_MissIsNotFound ==
    [][\A id \in FileIds :
           Download(id) =>
               /\ generated_files' = generated_files
               /\ id \notin uuids =>
                      response' = [status |-> 404, body |-> <<"File not found">>,
                                   filename |-> None]
               /\ id \in uuids =>
                      response'.status = 200 /\ response' # NotFound]_vars

\* C15 witness: the last download was a miss although the registry holds
\* an entry, and some id a download may ask for has not been issued.
C15_Witness ==
    /\ response.status = 404
    /\ DOMAIN generated_files # {}
    /\ \E id \in FileIds : id \notin uuids

\* C16: for a valid range expression E, the call of parse_page_ranges on
\* the rendering of parse_page_ranges(E) returns, without raising, the
\* interval list parse_page_ranges(E).
C16_RenderRoundTrip ==
    /\ parse_ret # <<>>
    /\ parse_prev # <<>>
    /\ parse_prev[1].op = "render"
    /\ ValidExpr(parse_prev[1].arg)
    => /\ ~parse_ret[1].raised
       /\ parse_ret[1] = parse_prev[1].ret
       /\ parse_arg = Render(parse_ret[1].value)

\* C16 witness: both calls returned; the first expression held an inverted
\* range and a single page, and is not its own rendering.
C16_Witness ==
    /\ parse_ret # <<>>
    /\ parse_prev # <<>>
    /\ parse_prev[1].op = "render"
    /\ parse_prev[1].arg # parse_arg
    /\ ~parse_ret[1].raised
    /\ Len(parse_ret[1].value) = 2
    /\ \E i \in 1..2 : parse_ret[1].value[i][1] < parse_ret[1].value[i][2]
    /\ \E i \in 1..2 : parse_ret[1].value[i][1] = parse_ret[1].value[i][2]

\* The outcomes of the list rs that carry no download id.
AllErr(rs) == \A k \in 1..Len(rs) : ~HasId(rs[k])

\* C17: the step that appends an error outcome leaves the registry and the
\* issued ids as they were; a step of a request changes the registry only
\* by appending an ok outcome; so a request that returns error outcomes only
\* has, at the step it returns, stored nothing, and its list holds one error
\* outcome for each of its intervals that has text.
C17_ErrRegistersNothing ==
    [][\A r \in Reqs :
           /\ Len(results'[r]) = Len(results[r]) + 1 /\ ~HasId(Last(results'[r]))
                  => /\ generated_files' = generated_files
                     /\ uuids' = uuids
                     /\ stored'[r] = stored[r]
           /\ (pc'[r] # pc[r] \/ idx'[r] # idx[r])
                  /\ generated_files' # generated_files
                  => /\ Len(results'[r]) = Len(results[r]) + 1
                     /\ HasId(Last(results'[r]))
           /\ pc[r] # "rendered" /\ pc'[r] = "rendered" /\ AllErr(results'[r])
                  => /\ stored'[r] = {}
                     /\ Len(results'[r])
                            = Cardinality({i \in 1..Len(ranges_to_translate'[r]) :
                                              ~Textless(r, i)'})]_vars

\* C17 witness: a request of three intervals, one of them without text,
\* returned two error outcomes of the translator and stored nothing, while
\* the registry holds an entry of another request.
C17_Witness ==
    \E r \in Reqs :
        /\ pc[r] = "rendered"
        /\ Len(ranges_to_translate[r]) = 3
        /\ Len(results[r]) = 2
        /\ \A k \in 1..2 :
               /\ ~HasId(results[r][k])
               /\ Last(results[r][k].translation) = Last(TranslatorError)
        /\ stored[r] = {}
        /\ DOMAIN generated_files # {}

\* C18: when a request has ended, each of its intervals is in one of the
\* terminal states DROPPED, EMITTED_OK, EMITTED_ERR, went through
\* TRANSLATING at most once, and is in EMITTED_OK only by way of OK,
\* PACKAGED, REGISTERED, in this order.
C18_IntervalsReachTerminal ==
    \A r \in Reqs :
        pc[r] \in {"rendered", "redirected"} =>
            \A i \in 1..Len(ranges_to_translate[r]) :
                /\ StateOf(r, i) \in {"DROPPED", "EMITTED_OK", "EMITTED_ERR"}
                /\ Cardinality({j \in 1..Len(trace[r][i]) :
                                    trace[r][i][j] = "TRANSLATING"}) <= 1
                /\ StateOf(r, i) = "EMITTED_OK" =>
                       trace[r][i] = <<"NEW", "EXTRACTING", "TRANSLATING", "OK",
                                       "PACKAGED", "REGISTERED", "EMITTED_OK">>

\* The pages of the i-th interval of context r that are pages of the
\* document.
InRange(r, i) ==
    {p \in ranges_to_translate[r][i][1]..ranges_to_translate[r][i][2] :
         1 <= p /\ p <= Len(form[r].pdf_file.pages)}

\* The stripped texts of the pages of the set S, in ascending page order.
RECURSIVE AscendingTexts(_, _)
AscendingTexts(pages, S) ==
    IF S = {} THEN <<>>
    ELSE LET p == CHOOSE x \in S : \A y \in S : x <= y
         IN  <<Strip(pages[p].text)>> \o AscendingTexts(pages, S \ {p})

\* C19: the text handed to the translator for an interval is the stripped
\* texts, joined by a blank line and in ascending page order, of exactly
\* the pages of the interval that are in the document and have a text that
\* is not blank; and a request is ended during extraction only by a page of
\* the document whose extraction raises, never by a page number outside
\* the document.
C19_TextFromPagesInRange ==
    \A r \in Reqs :
        LET pages == form[r].pdf_file.pages
        IN  /\ pc[r] = "translating" =>
                   combined_text[r]
                       = Join(AscendingTexts(pages,
                                  {p \in InRange(r, idx[r]) :
                                       Strip(pages[p].text) # <<>>}),
                              <<"\n\n">>)
            /\ pc[r] = "redirected" /\ ranges_to_translate[r] # <<>> =>
                   \E p \in InRange(r, idx[r]) : pages[p].raises

\* C19 witness: the translator is being called for an interval that begins
\* in the document and ends past its last page, on the text of its one page
\* that has text; another request is at the translator with the texts of two
\* pages.
C19_Witness ==
    /\ \E r \in Reqs :
           /\ pc[r] = "translating"
           /\ start_page(r) <= Len(form[r].pdf_file.pages)
           /\ end_page(r) > Len(form[r].pdf_file.pages)
           /\ combined_text[r] = <<"b">>
    /\ \E r \in Reqs :
           /\ pc[r] = "translating"
           /\ combined_text[r] = <<"a", "\n\n", "b">>

\* C20: a request that ended in a failure of the whole request (index
\* flashed the error and redirected) has stored nothing, and every entry of
\* the registry is carried by an ok outcome of a list that was returned or
\* is being built.
C20_FailedRequestStoresNothing ==
    /\ \A r \in Reqs : pc[r] = "redirected" => stored[r] = {}
    /\ \A k \in 1..Len(puts) :
           \A r \in Reqs :
               puts[k].id \in stored[r] =>
                   /\ pc[r] # "redirected"
                   /\ \E j \in 1..Len(results[r]) :
                          results[r][j].download_id = puts[k].id

====
